---- MODULE Spec2Model ----
(***************************************************************************)
(* Model of ddc-brightness-ctl (src/src/main.rs): the brightness           *)
(* arithmetic (BrightnessChange::apply), the request classification        *)
(* (Action::is_noop), the per-display read / settle / write / settle cycle *)
(* (Action::execute) and the run as a whole (parse_args, main).            *)
(***************************************************************************)
EXTENDS Integers, Sequences, FiniteSets, TLC

(***************************************************************************)
(* Bounds of the model.                                                    *)
(***************************************************************************)
\* largest number of displays attached, which Display::enumerate() returns
MaxDisplays == 3
\* number of successive applications of apply in ApplySpec
MaxChain == 2

(***************************************************************************)
(* Integer widths of the Rust types.                                       *)
(***************************************************************************)
U16_MAX == 65535
I16_MIN == 0 - 32768
I16_MAX == 32767

\* numbers given on the command line after --inc / --dec / --set
ArgNums == {I16_MIN - 1, I16_MIN, 0, 10, 40, 200, U16_MAX, U16_MAX + 1}
\* values a display answers to a luminance read, in and out of 0..100
DeviceValues == {40, 50, U16_MAX}
\* inputs of apply in ApplySpec
ApplyOffsets == (0 - 110 .. 110) \cup {I16_MIN, I16_MIN + 1, I16_MAX - 1, I16_MAX}
ApplyAbsolutes == (0 .. 110) \cup {I16_MAX, I16_MAX + 1, U16_MAX}
ApplyValues == (0 .. 101) \cup {200, I16_MAX, I16_MAX + 1, U16_MAX - 1, U16_MAX}

\* Option<T>: None is the empty sequence, Some(x) the one-element sequence
None == << >>
Some(x) == << x >>

SUCCESS == "SUCCESS"
FAILURE == "FAILURE"
\* exit status of a process that panicked
PANIC == "PANIC"

(***************************************************************************)
(* enum Action / enum BrightnessChange                                     *)
(***************************************************************************)
Get == [kind |-> "Get", n |-> 0]
Relative(o) == [kind |-> "Relative", n |-> o]
Absolute(v) == [kind |-> "Absolute", n |-> v]

\* is_noop taking the query for a no-op as well
is_noop_or_get(a) == a = Relative(0) \/ a = Get

\* is_noop matching a zero payload of either change variant
is_noop_zero_change(a) == a.kind # "Get" /\ a.n = 0

\* Action::is_noop
is_noop(a) == a = Relative(0)

\* u16::checked_add_signed: None when the sum leaves the u16 range
checked_add_signed(value, offset) ==
  IF value + offset < 0 \/ value + offset > U16_MAX
    THEN None
    ELSE Some(value + offset)

\* Option::unwrap_or
unwrap_or(opt, default) == IF opt = None THEN default ELSE opt[1]

\* Ord::clamp
clamp(x, lo, hi) == IF x < lo THEN lo ELSE IF x > hi THEN hi ELSE x

\* apply with a wrapping instead of a checked addition
apply_wrapping(change, value) ==
  IF change.kind = "Relative"
    THEN clamp((value + change.n) % (U16_MAX + 1), 0, 100)
    ELSE clamp(change.n, 0, 100)

\* apply without the final clamp
apply_unclamped(change, value) ==
  IF change.kind = "Relative"
    THEN unwrap_or(checked_add_signed(value, change.n),
                   IF change.n < 0 THEN 0 ELSE 100)
    ELSE change.n

\* apply whose Absolute arm yields the current value instead of the payload
apply_shadowed(change, value) ==
  IF change.kind = "Relative"
    THEN clamp(unwrap_or(checked_add_signed(value, change.n),
                         IF change.n < 0 THEN 0 ELSE 100), 0, 100)
    ELSE clamp(value, 0, 100)

\* BrightnessChange::apply
apply(change, value) ==
  IF change.kind = "Relative"
    THEN clamp(unwrap_or(checked_add_signed(value, change.n),
                         IF change.n < 0 THEN 0 ELSE 100), 0, 100)
    ELSE clamp(change.n, 0, 100)

(***************************************************************************)
(* State.                                                                  *)
(***************************************************************************)
VARIABLES
  pc,         \* position of the run
  argv,       \* the command line: [opt, num, display, list]
  attached,   \* number of displays attached to the machine
  action,     \* Args.action
  display,    \* Args.display : Option<usize>
  list,       \* Args.list
  displays,   \* Option<number of displays enumerated>
  i,          \* display_no of the display whose cycle runs
  old_value,  \* execute: Option<old_value>
  new_value,  \* execute: Option<new_value>
  exec_code,  \* execute: the local exit_code
  ret,        \* value execute returned
  exit_code,  \* main: the aggregate exit_code of the sweep
  status,     \* Option<exit status of the process>
  log,        \* commands issued to the display handles, in order
  out,        \* lines printed, in order
  chain       \* ApplySpec: a value and the results of applying the change

vars == << pc, argv, attached, action, display, list, displays, i, old_value, new_value,
           exec_code, ret, exit_code, status, log, out, chain >>

Opts == {"none", "get", "inc", "dec", "set", "help", "version", "unexpected"}

Init ==
  /\ pc = "parse"
  /\ argv \in [opt : Opts, num : ArgNums,
               display : {None} \cup {Some(n) : n \in 0 .. MaxDisplays + 2},
               list : BOOLEAN]
  /\ attached \in 0 .. MaxDisplays
  /\ (argv.opt \notin {"inc", "dec", "set"} => argv.num = 0)
  /\ action = Get
  /\ display = None
  /\ list = FALSE
  /\ displays = None
  /\ i = 0
  /\ old_value = None
  /\ new_value = None
  /\ exec_code = SUCCESS
  /\ ret = SUCCESS
  /\ exit_code = SUCCESS
  /\ status = None
  /\ log = << >>
  /\ out = << >>
  /\ chain = << >>

Exit(code) == pc' = "done" /\ status' = Some(code)

(***************************************************************************)
(* parse_args and the match on its result in main                          *)
(***************************************************************************)
\* a parse that takes any number that is not negative
ParsesAsU16_wide(n) == 0 <= n

ParsesAsI16(n) == I16_MIN <= n /\ n <= I16_MAX
ParsesAsU16(n) == 0 <= n /\ n <= U16_MAX

\* i16::neg: the negation of i16::MIN overflows; the build decides whether it
\* panics (overflow checks on) or wraps (overflow checks off)
NegOutcomes(n) ==
  IF n = I16_MIN THEN {Some(I16_MIN), None} ELSE {Some(0 - n)}

ParseArgs ==
  /\ pc = "parse"
  /\ \/ /\ argv.opt \in {"help", "version"}
        /\ out' = Append(out, [line |-> argv.opt, disp |-> 0, a |-> 0, b |-> 0])
        /\ Exit(SUCCESS)
        /\ UNCHANGED << action, display, list >>
     \/ /\ \/ argv.opt = "unexpected"
           \/ argv.opt \in {"inc", "dec"} /\ ~ParsesAsI16(argv.num)
           \/ argv.opt = "set" /\ ~ParsesAsU16(argv.num)
        /\ out' = Append(out, [line |-> "Failed to parse arguments",
                               disp |-> 0, a |-> 0, b |-> 0])
        /\ Exit(FAILURE)
        /\ UNCHANGED << action, display, list >>
     \/ /\ argv.opt = "dec" /\ ParsesAsI16(argv.num)
        /\ \E r \in NegOutcomes(argv.num) :
             IF r = None
               THEN /\ Exit(PANIC)
                    /\ UNCHANGED << action, display, list >>
               ELSE /\ action' = Relative(r[1])
                    /\ display' = argv.display
                    /\ list' = argv.list
                    /\ pc' = "check_noop"
                    /\ UNCHANGED status
        /\ UNCHANGED out
     \/ /\ \/ argv.opt \in {"none", "get"}
           \/ argv.opt = "inc" /\ ParsesAsI16(argv.num)
           \/ argv.opt = "set" /\ ParsesAsU16(argv.num)
        /\ action' = CASE argv.opt = "inc" -> Relative(argv.num)
                       [] argv.opt = "set" -> Absolute(argv.num)
                       [] OTHER -> Get
        /\ display' = argv.display
        /\ list' = argv.list
        /\ pc' = "check_noop"
        /\ UNCHANGED << status, out >>
  /\ UNCHANGED << argv, attached, displays, i, old_value, new_value, exec_code, ret,
                  exit_code, log, chain >>

(***************************************************************************)
(* main                                                                    *)
(***************************************************************************)
Line(l, d, a, b) == [line |-> l, disp |-> d, a |-> a, b |-> b]

\* the no-op test without the list flag: if action.is_noop() { return .. }
CheckNoop_ignores_list ==
  /\ pc = "check_noop"
  /\ IF is_noop(action)
       THEN Exit(SUCCESS)
       ELSE pc' = "enumerate" /\ UNCHANGED status
  /\ UNCHANGED << argv, attached, action, display, list, displays, i,
                  old_value, new_value, exec_code, ret, exit_code, log, out,
                  chain >>

\* if action.is_noop() && !list { return ExitCode::SUCCESS; }
CheckNoop ==
  /\ pc = "check_noop"
  /\ IF is_noop(action) /\ ~list
       THEN Exit(SUCCESS)
       ELSE pc' = "enumerate" /\ UNCHANGED status
  /\ UNCHANGED << argv, attached, action, display, list, displays, i, old_value,
                  new_value, exec_code, ret, exit_code, log, out, chain >>

\* let mut displays = Display::enumerate();
Enumerate ==
  /\ pc = "enumerate"
  /\ displays' = Some(attached)
  /\ out' = Append(out, Line("Querying display info", 0, 0, 0))
  /\ pc' = IF list THEN "list" ELSE "resolve"
  /\ UNCHANGED << argv, attached, action, display, list, i, old_value, new_value,
                  exec_code, ret, exit_code, status, log, chain >>

RECURSIVE Listing(_, _)
Listing(from, n) ==
  IF from >= n THEN << >>
  ELSE << Line("listed", from, 0, 0) >> \o Listing(from + 1, n)

\* if list { ...; return ExitCode::SUCCESS; }
ListDisplays ==
  /\ pc = "list"
  /\ out' = out \o << Line("Detected displays", 0, 0, 0) >>
                \o Listing(0, displays[1])
  /\ Exit(SUCCESS)
  /\ UNCHANGED << argv, attached, action, display, list, displays, i, old_value,
                  new_value, exec_code, ret, exit_code, log, chain >>

\* the index test off by one: n <= len instead of n < len
Resolve_off_by_one ==
  /\ pc = "resolve"
  /\ IF display # None
       THEN IF display[1] <= displays[1]
              THEN /\ i' = display[1]
                   /\ pc' = "exec_read"
                   /\ UNCHANGED << status, out >>
              ELSE /\ out' = Append(out, Line("No display", display[1], 0, 0))
                   /\ Exit(FAILURE)
                   /\ UNCHANGED i
       ELSE /\ i' = 0
            /\ pc' = "sweep"
            /\ UNCHANGED << status, out >>
  /\ exit_code' = SUCCESS
  /\ UNCHANGED << argv, attached, action, display, list, displays,
                  old_value, new_value, exec_code, ret, log, chain >>

\* the index asked for dropped: the cycle runs on the first display
Resolve_first_display ==
  /\ pc = "resolve"
  /\ IF display # None
       THEN IF display[1] < displays[1]
              THEN /\ i' = 0
                   /\ pc' = "exec_read"
                   /\ UNCHANGED << status, out >>
              ELSE /\ out' = Append(out, Line("No display", display[1], 0, 0))
                   /\ Exit(FAILURE)
                   /\ UNCHANGED i
       ELSE /\ i' = 0
            /\ pc' = "sweep"
            /\ UNCHANGED << status, out >>
  /\ exit_code' = SUCCESS
  /\ UNCHANGED << argv, attached, action, display, list, displays,
                  old_value, new_value, exec_code, ret, log, chain >>

\* if let Some(n) = display { ... }  let mut exit_code = ExitCode::SUCCESS;
Resolve ==
  /\ pc = "resolve"
  /\ IF display # None
       THEN IF display[1] < displays[1]
              THEN /\ i' = display[1]
                   /\ pc' = "exec_read"
                   /\ UNCHANGED << status, out >>
              ELSE /\ out' = Append(out, Line("No display", display[1], 0, 0))
                   /\ Exit(FAILURE)
                   /\ UNCHANGED i
       ELSE /\ i' = 0
            /\ pc' = "sweep"
            /\ UNCHANGED << status, out >>
  /\ exit_code' = SUCCESS
  /\ UNCHANGED << argv, attached, action, display, list, displays, old_value,
                  new_value, exec_code, ret, log, chain >>

\* for (i, mut disp) in displays.into_iter().enumerate() { ... }  exit_code
SweepNext ==
  /\ pc = "sweep"
  /\ IF i < displays[1]
       THEN pc' = "exec_read" /\ UNCHANGED status
       ELSE Exit(exit_code)
  /\ UNCHANGED << argv, attached, action, display, list, displays, i, old_value,
                  new_value, exec_code, ret, exit_code, log, out, chain >>

(***************************************************************************)
(* Action::execute                                                         *)
(***************************************************************************)
Cmd(op, d, v, ok) == [op |-> op, disp |-> d, val |-> v, ok |-> ok]

\* the read whose timeout returns the local exit_code, still SUCCESS
ExecRead_timeout_succeeds ==
  /\ pc = "exec_read"
  /\ exec_code' = SUCCESS
  /\ new_value' = None
  /\ \/ /\ log' = Append(log, Cmd("read", i, 0, FALSE))
        /\ out' = Append(out, Line("Timed out", i, 0, 0))
        /\ old_value' = None
        /\ ret' = SUCCESS
        /\ pc' = "exec_ret"
     \/ \E v \in DeviceValues :
          /\ log' = Append(log, Cmd("read", i, v, TRUE))
          /\ old_value' = Some(v)
          /\ pc' = "exec_sleep_read"
          /\ UNCHANGED << out, ret >>
  /\ UNCHANGED << argv, attached, action, display, list, displays, i,
                  exit_code, status, chain >>

\* the read whose timeout is taken for a value of 0 and the cycle goes on
ExecRead_timeout_reads_zero ==
  /\ pc = "exec_read"
  /\ exec_code' = SUCCESS
  /\ new_value' = None
  /\ \/ /\ log' = Append(log, Cmd("read", i, 0, FALSE))
        /\ out' = Append(out, Line("Timed out", i, 0, 0))
        /\ old_value' = Some(0)
        /\ pc' = "exec_sleep_read"
        /\ UNCHANGED ret
     \/ \E v \in DeviceValues :
          /\ log' = Append(log, Cmd("read", i, v, TRUE))
          /\ old_value' = Some(v)
          /\ pc' = "exec_sleep_read"
          /\ UNCHANGED << out, ret >>
  /\ UNCHANGED << argv, attached, action, display, list, displays, i,
                  exit_code, status, chain >>

\* let mut exit_code = SUCCESS; ... get_vcp_feature(LUMINANCE_FEATURE_CODE)
ExecRead ==
  /\ pc = "exec_read"
  /\ exec_code' = SUCCESS
  /\ new_value' = None
  /\ \/ /\ log' = Append(log, Cmd("read", i, 0, FALSE))
        /\ out' = Append(out, Line("Timed out", i, 0, 0))
        /\ old_value' = None
        /\ ret' = FAILURE
        /\ pc' = "exec_ret"
     \/ \E v \in DeviceValues :
          /\ log' = Append(log, Cmd("read", i, v, TRUE))
          /\ old_value' = Some(v)
          /\ pc' = "exec_sleep_read"
          /\ UNCHANGED << out, ret >>
  /\ UNCHANGED << argv, attached, action, display, list, displays, i, exit_code,
                  status, chain >>

\* display.handle.sleep(); after the read
ExecSleepRead ==
  /\ pc = "exec_sleep_read"
  /\ log' = Append(log, Cmd("settle", i, 0, TRUE))
  /\ pc' = "exec_match"
  /\ UNCHANGED << argv, attached, action, display, list, displays, i, old_value,
                  new_value, exec_code, ret, exit_code, status, out, chain >>

\* the match without the old_value == new_value test: it always writes
ExecMatch_always_writes ==
  /\ pc = "exec_match"
  /\ IF action = Get
       THEN /\ out' = Append(out, Line("is set to", i, old_value[1], 0))
            /\ ret' = exec_code
            /\ pc' = "exec_ret"
            /\ UNCHANGED new_value
       ELSE /\ new_value' = Some(apply(action, old_value[1]))
            /\ out' = Append(out, Line("Changing", i, old_value[1],
                                       new_value'[1]))
            /\ pc' = "exec_write"
            /\ UNCHANGED ret
  /\ UNCHANGED << argv, attached, action, display, list, displays, i,
                  old_value, exec_code, exit_code, status, log, chain >>

\* match self { Action::Change(..) => .., Action::Get => .. }
ExecMatch ==
  /\ pc = "exec_match"
  /\ IF action = Get
       THEN /\ out' = Append(out, Line("is set to", i, old_value[1], 0))
            /\ ret' = exec_code
            /\ pc' = "exec_ret"
            /\ UNCHANGED new_value
       ELSE /\ new_value' = Some(apply(action, old_value[1]))
            /\ IF old_value = new_value'
                 THEN /\ out' = Append(out, Line("No change needed", i, 0, 0))
                      /\ ret' = SUCCESS
                      /\ pc' = "exec_ret"
                 ELSE /\ out' = Append(out, Line("Changing", i, old_value[1],
                                                 new_value'[1]))
                      /\ pc' = "exec_write"
                      /\ UNCHANGED ret
  /\ UNCHANGED << argv, attached, action, display, list, displays, i, old_value,
                  exec_code, exit_code, status, log, chain >>

\* the write whose failure returns at once, without the settle
ExecWrite_failure_returns ==
  /\ pc = "exec_write"
  /\ \/ /\ log' = Append(log, Cmd("write", i, new_value[1], TRUE))
        /\ pc' = "exec_sleep_write"
        /\ UNCHANGED << out, exec_code, ret >>
     \/ /\ log' = Append(log, Cmd("write", i, new_value[1], FALSE))
        /\ out' = Append(out, Line("Failed to set", i, 0, 0))
        /\ exec_code' = FAILURE
        /\ ret' = FAILURE
        /\ pc' = "exec_ret"
  /\ UNCHANGED << argv, attached, action, display, list, displays, i,
                  old_value, new_value, exit_code, status, chain >>

\* if let Err(e) = set_vcp_feature(LUMINANCE_FEATURE_CODE, new_value) { .. }
ExecWrite ==
  /\ pc = "exec_write"
  /\ \/ /\ log' = Append(log, Cmd("write", i, new_value[1], TRUE))
        /\ UNCHANGED << out, exec_code >>
     \/ /\ log' = Append(log, Cmd("write", i, new_value[1], FALSE))
        /\ out' = Append(out, Line("Failed to set", i, 0, 0))
        /\ exec_code' = FAILURE
  /\ pc' = "exec_sleep_write"
  /\ UNCHANGED << argv, attached, action, display, list, displays, i, old_value,
                  new_value, ret, exit_code, status, chain >>

\* display.handle.sleep(); after the write, then the function's exit_code
ExecSleepWrite ==
  /\ pc = "exec_sleep_write"
  /\ log' = Append(log, Cmd("settle", i, 0, TRUE))
  /\ ret' = exec_code
  /\ pc' = "exec_ret"
  /\ UNCHANGED << argv, attached, action, display, list, displays, i, old_value,
                  new_value, exec_code, exit_code, status, out, chain >>

\* the sweep stopping at the first display that failed
ExecReturn_stops_on_failure ==
  /\ pc = "exec_ret"
  /\ IF display # None \/ ret = FAILURE
       THEN /\ Exit(ret)
            /\ UNCHANGED << i, exit_code >>
       ELSE /\ i' = i + 1
            /\ pc' = "sweep"
            /\ UNCHANGED << status, exit_code >>
  /\ UNCHANGED << argv, attached, action, display, list, displays,
                  old_value, new_value, exec_code, ret, log, out, chain >>

\* the sweep keeping the result of the last display only
ExecReturn_last_wins ==
  /\ pc = "exec_ret"
  /\ IF display # None
       THEN /\ Exit(ret)
            /\ UNCHANGED << i, exit_code >>
       ELSE /\ exit_code' = ret
            /\ i' = i + 1
            /\ pc' = "sweep"
            /\ UNCHANGED status
  /\ UNCHANGED << argv, attached, action, display, list, displays,
                  old_value, new_value, exec_code, ret, log, out, chain >>

\* the two callers of execute: return action.execute(disp, n), and
\* if action.execute(&mut disp, i) == FAILURE { exit_code = FAILURE; }
ExecReturn ==
  /\ pc = "exec_ret"
  /\ IF display # None
       THEN /\ Exit(ret)
            /\ UNCHANGED << i, exit_code >>
       ELSE /\ exit_code' = IF ret = FAILURE THEN FAILURE ELSE exit_code
            /\ i' = i + 1
            /\ pc' = "sweep"
            /\ UNCHANGED status
  /\ UNCHANGED << argv, attached, action, display, list, displays, old_value,
                  new_value, exec_code, ret, log, out, chain >>

Next ==
  \/ ParseArgs
  \/ CheckNoop
  \/ Enumerate
  \/ ListDisplays
  \/ Resolve
  \/ SweepNext
  \/ ExecRead
  \/ ExecSleepRead
  \/ ExecMatch
  \/ ExecWrite
  \/ ExecSleepWrite
  \/ ExecReturn

Spec == Init /\ [][Next]_vars

(***************************************************************************)
(* ApplySpec: BrightnessChange::apply on its own.  A change and a current  *)
(* value are drawn from the u16 / i16 ranges; each step applies the change *)
(* to the last value of the chain, as a further run of the program would   *)
(* to the value the previous run has set.                                  *)
(***************************************************************************)
ApplyChanges ==
  {Relative(o) : o \in ApplyOffsets} \cup {Absolute(v) : v \in ApplyAbsolutes}

ApplyInit ==
  /\ pc = "apply"
  /\ action \in ApplyChanges
  /\ \E c \in ApplyValues : chain = << c >>
  /\ argv = [opt |-> "none", num |-> 0, display |-> None, list |-> FALSE]
  /\ attached = 0
  /\ display = None
  /\ list = FALSE
  /\ displays = None
  /\ i = 0
  /\ old_value = None
  /\ new_value = None
  /\ exec_code = SUCCESS
  /\ ret = SUCCESS
  /\ exit_code = SUCCESS
  /\ status = None
  /\ log = << >>
  /\ out = << >>

ApplyStep ==
  /\ pc = "apply"
  /\ Len(chain) <= MaxChain
  /\ chain' = Append(chain, apply(action, chain[Len(chain)]))
  /\ UNCHANGED << pc, argv, attached, action, display, list, displays, i, old_value,
                  new_value, exec_code, ret, exit_code, status, log, out >>

ApplyNext == ApplyStep

ApplySpec == ApplyInit /\ [][ApplyNext]_vars

(***************************************************************************)
(* Properties of BrightnessChange::apply                                   *)
(***************************************************************************)
\* the sum over the unbounded integers, saturated to the percentage domain
Saturated(sum) == IF sum < 0 THEN 0 ELSE IF sum > 100 THEN 100 ELSE sum

\* C1: for a current value c in 0..100 and any i16 offset o,
\* apply(Relative(o), c) is 0 when c + o < 0, 100 when c + o > 100 and c + o
\* otherwise (c itself when o = 0), the sum taken over the unbounded integers.
C1_RelativeSaturates ==
  \A k \in 2 .. Len(chain) :
    (pc = "apply" /\ action.kind = "Relative" /\ chain[k - 1] \in 0 .. 100)
      => /\ chain[k] = Saturated(chain[k - 1] + action.n)
         /\ (action.n = 0 => chain[k] = chain[k - 1])

\* C1 witness: 95 + 10 saturates to 100, and 100 + 10 stays at 100
C1_Witness ==
  /\ pc = "apply"
  /\ action = Relative(10)
  /\ chain = << 95, 100, 100 >>

\* C3: for v in 0..100 and any current value c, apply(Absolute(v), c) = v,
\* and applying the same absolute change to that result gives v again.
C3_AbsoluteIgnoresCurrent ==
  (pc = "apply" /\ action.kind = "Absolute" /\ action.n \in 0 .. 100)
    => \A k \in 2 .. Len(chain) : chain[k] = action.n

\* C3 witness: Absolute(40) applied twice, starting from an out-of-spec value
C3_Witness ==
  /\ pc = "apply"
  /\ action = Absolute(40)
  /\ chain = << U16_MAX, 40, 40 >>

(***************************************************************************)
(* Properties of a run.                                                    *)
(***************************************************************************)
\* positions in log of the commands op issued to display d
CmdsAt(op, d) == {k \in 1 .. Len(log) : log[k].op = op /\ log[k].disp = d}
\* positions in log of the reads of display d that were answered
ReadsOk(d) == {k \in CmdsAt("read", d) : log[k].ok}
\* the run came to the per-display cycles of a sweep over all displays
InSweep == displays # None /\ ~list /\ display = None
\* the run came to the cycle of the single display it was asked for
InSingle ==
  displays # None /\ ~list /\ display # None /\ display[1] < displays[1]
\* the displays whose cycle the run is to execute
Targets ==
  IF InSweep THEN 0 .. displays[1] - 1
  ELSE IF InSingle THEN {display[1]}
  ELSE {}
IsPrinted(l, d) == \E k \in 1 .. Len(out) : out[k].line = l /\ out[k].disp = d

\* apply stays in 0..100 on every change and every u16 current value drawn
ApplyInRange ==
  \A ch \in ApplyChanges, c \in ApplyValues : apply(ch, c) \in 0 .. 100

\* C2: for every change and every u16 current value, out-of-spec ones
\* included, apply returns a value in 0..100; so every value passed to a
\* brightness write is in 0..100.
C2_WritesInRange ==
  /\ ApplyInRange
  /\ (new_value # None => new_value[1] \in 0 .. 100)
  /\ \A k \in 1 .. Len(log) : log[k].op = "write" => log[k].val \in 0 .. 100

\* C2 witness: a display answering 65535 is set to 200 and 100 is written
C2_Witness ==
  /\ action = Absolute(200)
  /\ old_value = Some(U16_MAX)
  /\ Len(log) = 3
  /\ log[3] = Cmd("write", 0, 100, TRUE)

\* C4: a write goes to a display iff its read succeeded with a value old, the
\* request is a change and apply(change, old) # old; then exactly one write
\* goes to it, carrying apply(change, old).  When apply(change, old) = old the
\* display is reported as needing no change and is not written; a query
\* writes nothing.
C4_WriteIffChanged ==
  \A d \in 0 .. attached :
    LET writes == CmdsAt("write", d)
        reads == ReadsOk(d)
    IN  /\ Cardinality(writes) <= 1
        /\ \A w \in writes :
             /\ action # Get
             /\ \E r \in reads :
                  /\ r < w
                  /\ apply(action, log[r].val) # log[r].val
                  /\ log[w].val = apply(action, log[r].val)
        /\ \A r \in reads :
             /\ (pc = "done" /\ action # Get
                    /\ apply(action, log[r].val) # log[r].val)
                  => writes # {}
             /\ (pc \in {"exec_ret", "sweep", "done"} /\ action # Get
                    /\ apply(action, log[r].val) = log[r].val)
                  => IsPrinted("No change needed", d)

\* C4 witness: set to 40, display 0 at 50 gets one write of 40, and
\* display 1 at 40 needs no change and is not written
C4_Witness ==
  /\ pc = "done"
  /\ action = Absolute(40)
  /\ log = << Cmd("read", 0, 50, TRUE), Cmd("settle", 0, 0, TRUE),
              Cmd("write", 0, 40, TRUE), Cmd("settle", 0, 0, TRUE),
              Cmd("read", 1, 40, TRUE), Cmd("settle", 1, 0, TRUE) >>
  /\ IsPrinted("No change needed", 1)

\* the displays read, in the order of their reads
RECURSIVE ReadOrder(_)
ReadOrder(cmds) ==
  IF cmds = << >> THEN << >>
  ELSE IF Head(cmds).op = "read"
    THEN << Head(cmds).disp >> \o ReadOrder(Tail(cmds))
    ELSE ReadOrder(Tail(cmds))

\* C5: in a sweep over all displays, the read of every enumerated display is
\* attempted exactly once, in enumeration order, whatever failed before it.
C5_SweepVisitsAll ==
  InSweep =>
    LET order == ReadOrder(log)
    IN  /\ \A k \in 1 .. Len(order) : order[k] = k - 1
        /\ Len(order) <= displays[1]
        /\ pc = "done" => Len(order) = displays[1]

\* C5 witness: the read of display 0 and the write of display 1 fail, and
\* display 2 is read all the same
C5_Witness ==
  /\ pc = "done"
  /\ InSweep
  /\ displays = Some(3)
  /\ ~log[1].ok
  /\ \E w \in CmdsAt("write", 1) : ~log[w].ok
  /\ CmdsAt("read", 2) # {}

\* some command of the run failed: a read was not answered or a write failed
SomeFailure == \E k \in 1 .. Len(log) : ~log[k].ok

\* C6: a run that comes to the per-display cycles exits with failure iff
\* some targeted display's read got no response or its write failed; during
\* a sweep the aggregate is failure iff a display already visited failed, so
\* a later success never resets it.
C6_ExitReflectsFailures ==
  /\ (pc = "done" /\ (InSweep \/ InSingle))
       => /\ status \in {Some(SUCCESS), Some(FAILURE)}
          /\ (status = Some(FAILURE)) = SomeFailure
  /\ (pc = "sweep" /\ InSweep) => ((exit_code = FAILURE) = SomeFailure)

\* C6 witness: of 3 displays, display 1 times out on its read, displays 0 and
\* 2 are changed, and the run exits with failure
C6_Witness ==
  /\ pc = "done"
  /\ InSweep
  /\ displays = Some(3)
  /\ Len(log) > 5
  /\ log[5] = Cmd("read", 1, 0, FALSE)
  /\ \E w \in CmdsAt("write", 0) : log[w].ok
  /\ \E w \in CmdsAt("write", 2) : log[w].ok
  /\ IsPrinted("Timed out", 1)
  /\ Len(out) = 4
  /\ status = Some(FAILURE)

\* the displays the command line asks for, among those attached
Requested ==
  IF argv.display = None THEN 0 .. attached - 1
  ELSE {argv.display[1]} \cap (0 .. attached - 1)
\* display d was read without an answer
TimedOut(d) == \E k \in CmdsAt("read", d) : ~log[k].ok
\* display d was read and, if written, written successfully
Succeeded(d) ==
  /\ ReadsOk(d) # {}
  /\ \A k \in CmdsAt("write", d) : log[k].ok
WriteFailed == \E k \in 1 .. Len(log) : log[k].op = "write" /\ ~log[k].ok

\* C7 as stated: in a sweep, with no failed write and some display that
\* succeeded, a display whose read timed out leaves the exit status success.
C7_TimeoutIsNotFatal ==
  (pc = "done" /\ InSweep /\ ~WriteFailed
     /\ (\E d \in Targets : Succeeded(d)) /\ (\E d \in Targets : TimedOut(d)))
    => status = Some(SUCCESS)

\* C7 amended: in a sweep, a read timeout on a display is reported, nothing
\* more is issued to that display and the displays after it are still read,
\* but the run exits with failure, whatever the other displays did.
C7_TimeoutFailsSweep ==
  InSweep =>
    \A d \in Targets :
      TimedOut(d) =>
        /\ IsPrinted("Timed out", d)
        /\ CmdsAt("write", d) = {} /\ CmdsAt("settle", d) = {}
        /\ pc = "done" =>
             /\ status = Some(FAILURE)
             /\ \A e \in Targets : CmdsAt("read", e) # {}

\* C7 witness: display 0 times out, display 1 is changed, no write fails
C7_Witness ==
  /\ pc = "done"
  /\ InSweep
  /\ displays = Some(2)
  /\ TimedOut(0)
  /\ Succeeded(1) /\ CmdsAt("write", 1) # {}
  /\ status = Some(FAILURE)

\* C8: when the display index asked for is not less than the number of
\* enumerated displays, the batch ends with failure ("No display") and no
\* read, write or settle is issued to any display.
C8_NoSuchDisplay ==
  (displays # None /\ ~list /\ display # None /\ display[1] >= displays[1])
    => /\ log = << >>
       /\ pc \in {"resolve", "done"}
       /\ pc = "done" => /\ status = Some(FAILURE)
                         /\ IsPrinted("No display", display[1])

\* C8 witness: 3 displays enumerated, display 5 asked for
C8_Witness ==
  /\ pc = "done"
  /\ displays = Some(3)
  /\ display = Some(5)
  /\ ~list
  /\ action # Get
  /\ log = << >>
  /\ status = Some(FAILURE)

\* C9 as stated: with the request Relative(0) and no list flag, every
\* targeted display is read, its value is reported, and nothing is written.
C9_RelativeZeroQueries ==
  (pc = "done" /\ action = Relative(0) /\ ~list)
    => /\ \A d \in Requested :
            /\ CmdsAt("read", d) # {}
            /\ ReadsOk(d) # {} => IsPrinted("is set to", d)
       /\ \A k \in 1 .. Len(log) : log[k].op # "write"

\* C9 amended: with the get request (the default) and no list flag, every
\* targeted display is read once, the value of each display that answers is
\* reported, and nothing is written; with the request Relative(0) and no list
\* flag the run exits with success without enumerating or reading a display.
C9_GetQueriesZeroExits ==
  /\ (pc = "done" /\ argv.opt \in {"none", "get"} /\ ~argv.list)
       => /\ \A d \in Requested :
               /\ Cardinality(CmdsAt("read", d)) = 1
               /\ \A k \in ReadsOk(d) :
                    \E o \in 1 .. Len(out) :
                      out[o] = Line("is set to", d, log[k].val, 0)
          /\ \A k \in 1 .. Len(log) : log[k].op # "write"
  /\ (action = Relative(0) /\ ~list /\ pc # "check_noop")
       => /\ pc = "done"
          /\ status = Some(SUCCESS)
          /\ displays = None
          /\ log = << >>

\* C9 witness: a get over two displays reporting 40 and 50, nothing written
C9_Witness ==
  /\ pc = "done"
  /\ argv.opt = "get"
  /\ log = << Cmd("read", 0, 40, TRUE), Cmd("settle", 0, 0, TRUE),
              Cmd("read", 1, 50, TRUE), Cmd("settle", 1, 0, TRUE) >>
  /\ out[Len(out)] = Line("is set to", 1, 50, 0)

\* C9 second witness of the amended claim: --inc 0 with displays attached
C9_WitnessZero ==
  /\ pc = "done"
  /\ action = Relative(0)
  /\ ~list
  /\ attached = 2

\* C10: each answered read is followed at once by a settle of the same
\* display, each write, failed or not, is followed at once by a settle of
\* the same display, and the commands of a display come after all those of
\* the displays before it.
C10_SettleAfterEachCommand ==
  \A k \in 1 .. Len(log) :
    /\ (log[k].op = "write" \/ (log[k].op = "read" /\ log[k].ok))
         => IF k < Len(log)
              THEN log[k + 1] = Cmd("settle", log[k].disp, 0, TRUE)
              ELSE pc = (IF log[k].op = "read" THEN "exec_sleep_read"
                         ELSE "exec_sleep_write")
    /\ k < Len(log) => log[k].disp <= log[k + 1].disp

\* C10 witness: the write to display 0 fails and is settled before display 1
\* is read
C10_Witness ==
  /\ Len(log) = 5
  /\ log[3] = Cmd("write", 0, 60, FALSE)
  /\ log[4] = Cmd("settle", 0, 0, TRUE)
  /\ log[5].op = "read" /\ log[5].disp = 1

\* C11: when the display index n asked for is valid, reads, writes and
\* settles go to display n only, and the exit status is that display's own
\* outcome: failure if its read got no response or its write failed, success
\* otherwise.
C11_SingleTargetOnly ==
  InSingle =>
    /\ \A k \in 1 .. Len(log) : log[k].disp = display[1]
    /\ Cardinality(CmdsAt("read", display[1])) <= 1
    /\ pc = "done" =>
         /\ Cardinality(CmdsAt("read", display[1])) = 1
         /\ status = IF TimedOut(display[1]) \/ WriteFailed
                       THEN Some(FAILURE) ELSE Some(SUCCESS)

\* C11 witness: of 3 displays, display 1 is asked for and its write fails
C11_Witness ==
  /\ pc = "done"
  /\ displays = Some(3)
  /\ display = Some(1)
  /\ log = << Cmd("read", 1, 50, TRUE), Cmd("settle", 1, 0, TRUE),
              Cmd("write", 1, 60, FALSE), Cmd("settle", 1, 0, TRUE) >>
  /\ status = Some(FAILURE)

\* C12: when the list flag is set, whatever change request and display index
\* come with it, the run enumerates the displays and lists each of them,
\* issues no read, write or settle to any display, and exits with success.
C12_ListTouchesNothing ==
  list =>
    /\ log = << >>
    /\ pc \in {"check_noop", "enumerate", "list", "done"}
    /\ pc = "done" =>
         /\ status = Some(SUCCESS)
         /\ displays = Some(attached)
         /\ \A d \in 0 .. attached - 1 : IsPrinted("listed", d)

\* C12 witness: --list with the no-op request and an index out of range
C12_Witness ==
  /\ pc = "done"
  /\ list
  /\ action = Relative(0)
  /\ display = Some(5)
  /\ displays = Some(3)
  /\ IsPrinted("listed", 2)
  /\ status = Some(SUCCESS)

\* C13: is_noop is true of the request Relative(0) and false of every
\* other one: Relative(o) with o # 0, Absolute(v) for every v, one equal to
\* the display's current value included, and the get action.
C13_NoopIsRelativeZero ==
  /\ action = Relative(0) => is_noop(action)
  /\ (action.kind = "Relative" /\ action.n # 0) => ~is_noop(action)
  /\ action.kind = "Absolute" => ~is_noop(action)
  /\ action = Get => ~is_noop(action)
  /\ (is_noop(action) /\ ~list /\ pc # "check_noop") => log = << >>

\* C13 witness: set to 0 on a display, a change that is no no-op and whose
\* cycle has run
C13_Witness ==
  /\ action = Absolute(0)
  /\ ~is_noop(action)
  /\ old_value = Some(40)
  /\ new_value = Some(0)

\* C13 second witness: set to 40 on a display at 40 is no no-op either
C13_WitnessSame ==
  /\ action = Absolute(40)
  /\ ~is_noop(action)
  /\ old_value = Some(40)
  /\ pc = "done"

\* C14: when the read of a display fails, its cycle ends there with the
\* failing outcome "no response": no write and no settle goes to that display
\* whatever the request, and the run goes on: it does not panic, and a sweep
\* still reads the displays after it.
C14_ReadFailureEndsCycle ==
  \A d \in 0 .. attached - 1 :
    TimedOut(d) =>
      /\ CmdsAt("write", d) = {}
      /\ CmdsAt("settle", d) = {}
      /\ Cardinality(CmdsAt("read", d)) = 1
      /\ IsPrinted("Timed out", d)
      /\ (pc = "exec_ret" /\ i = d) => ret = FAILURE
      /\ pc \in {"exec_ret", "sweep", "exec_read", "exec_sleep_read",
                 "exec_match", "exec_write", "exec_sleep_write", "done"}
      /\ pc = "done" =>
           /\ status = Some(FAILURE)
           /\ \A e \in Targets : CmdsAt("read", e) # {}

\* C14 witness: a change of +10 over two displays, display 0 does not answer
\* and display 1 is read and written
C14_Witness ==
  /\ pc = "done"
  /\ action = Relative(10)
  /\ log = << Cmd("read", 0, 0, FALSE),
              Cmd("read", 1, 50, TRUE), Cmd("settle", 1, 0, TRUE),
              Cmd("write", 1, 60, TRUE), Cmd("settle", 1, 0, TRUE) >>
  /\ status = Some(FAILURE)

\* C15: for every i16 value n that --dec accepts, the minimum of the type
\* included, the request built is Relative(-n), the negation being computed
\* without overflow, wraparound or panic, so that --dec n moves the
\* brightness against --inc n.
C15_DecNegates ==
  (argv.opt = "dec" /\ ParsesAsI16(argv.num) /\ pc # "parse")
    => /\ status # Some(PANIC)
       /\ action = Relative(0 - argv.num)

\* C15 away from the minimum of i16: there the request is Relative(-n)
C15_DecNegatesAboveMin ==
  (argv.opt = "dec" /\ ParsesAsI16(argv.num) /\ argv.num # I16_MIN
     /\ pc # "parse")
    => /\ status # Some(PANIC)
       /\ action = Relative(0 - argv.num)

\* the number on the command line is outside the range of its variant:
\* the i16 of a relative change, the u16 of an absolute one
Unrepresentable ==
  \/ argv.opt \in {"inc", "dec"}
       /\ (argv.num < 0 - 32768 \/ argv.num > 32767)
  \/ argv.opt = "set" /\ (argv.num < 0 \/ argv.num > 65535)

\* C16: a change value outside the numeric range of its variant is rejected
\* before any display I/O: the run exits with failure without enumerating,
\* reading, writing or settling a display.
C16_InvalidInputRejected ==
  (Unrepresentable /\ pc # "parse")
    => /\ pc = "done"
       /\ status = Some(FAILURE)
       /\ displays = None
       /\ log = << >>
       /\ out = << Line("Failed to parse arguments", 0, 0, 0) >>

\* C16 witness: --set 65536 with three displays attached
C16_Witness ==
  /\ pc = "done"
  /\ argv.opt = "set"
  /\ argv.num = U16_MAX + 1
  /\ attached = 3
  /\ status = Some(FAILURE)
  /\ log = << >>

====
